---- MODULE Spec2Model ----
(***************************************************************************)
(* Model of lib/computing_flow_layer/computing_flow_op.cc: the Computeflow *)
(* forward kernel (CPU), the three kernel constructors, and the backward   *)
(* scatter of ComputeflowGrad.                                             *)
(*                                                                         *)
(* Numbers are integers: a float is modelled by an integer, sqrt by the    *)
(* integer square root (monotone, rounding like the float sqrt does), and  *)
(* the not-a-number marker by the value NaN, which no arithmetic touches.  *)
(* Tensors are flat arrays indexed from 0, exactly as the code indexes     *)
(* them.                                                                   *)
(***************************************************************************)
EXTENDS Integers, Sequences, FiniteSets, TLC

VARIABLES
    attr_kernel_size,   \* node attribute "kernel_size"
    attr_threshold,     \* node attribute "threshold"
    bottom_data,        \* input 0, flat
    im_points,          \* input 1 (bottom_points), flat
    im_depth,           \* input 2 (bottom_depth), flat
    meta_data,          \* input 3 (bottom_meta_data), flat
    status,             \* construction status of the forward and gradient kernels
    device,             \* device of the forward kernel
    kernel_size_,       \* member kernel_size_ of each kernel
    threshold_,         \* member threshold_ of each kernel
    pc,                 \* position of the run
    idx,                \* index_pixel of the next loop iteration
    invocation,         \* number of the current forward Compute call
    top_data,           \* output 0, flat
    top_points,         \* output 1, flat
    stray,              \* {} or {content of the memory cells in front of bottom_data}, once read
    sel,                \* per pixel: the locals <<fx, fy>> after the search
    copied,             \* per pixel: {} or {source pixel index of the transfer}
    first_top_data,     \* {} or {top_data of the first Compute call}
    first_top_points,   \* {} or {top_points of the first Compute call}
    bottom_diff,        \* output of the gradient kernel, flat
    scatter             \* per pixel: {} or {pixel index the gradient was added to}

vars == <<attr_kernel_size, attr_threshold, bottom_data, im_points, im_depth, meta_data,
          status, device, kernel_size_, threshold_, pc, idx, invocation, top_data,
          top_points, stray, sel, copied, first_top_data, first_top_points,
          bottom_diff, scatter>>

inputs == <<attr_kernel_size, attr_threshold, bottom_data, im_points, im_depth, meta_data>>

kernels == <<status, device, kernel_size_, threshold_>>

(***************************************************************************)
(* Bounds of the model and constants of the program.                       *)
(***************************************************************************)
BatchSize == 2

Height == 2

Width == 2

NumChannels == 1

MaxKernel == 1

NumMetaData == 48

DminInit == 1000

NaN == -888888

Uninit == -999999

Garbage == {0, 99}

\* the Compute calls of one session run: a first call and one repetition
Invocations == {1, 2}

NumPixels == BatchSize * Height * Width

Pixels == 0 .. (NumPixels - 1)

Channels == 0 .. (NumChannels - 1)

BatchOf(p) == p \div (Height * Width)

RowOf(p) == (p % (Height * Width)) \div Width

ColOf(p) == p % Width

IsNan(v) == v = NaN

(***************************************************************************)
(* sqrt: the largest r with r * r <= v, found by bisection below 46341,    *)
(* the root of the largest square the model's integers hold.               *)
(***************************************************************************)
RECURSIVE SqrtIter(_, _, _)
SqrtIter(v, lo, hi) ==
    IF hi - lo <= 1 THEN lo
    ELSE LET mid == (lo + hi) \div 2
         IN  IF mid * mid <= v THEN SqrtIter(v, mid, hi) ELSE SqrtIter(v, lo, mid)

Sqrt(v) == SqrtIter(v, 0, IF v < 46340 THEN v + 1 ELSE 46341)

Dis(P, Q) ==
    Sqrt((P[1] - Q[1]) * (P[1] - Q[1]) + (P[2] - Q[2]) * (P[2] - Q[2])
         + (P[3] - Q[3]) * (P[3] - Q[3]))

(***************************************************************************)
(* The inputs the model draws from.                                        *)
(***************************************************************************)
KernelSizes == -1 .. MaxKernel

Thresholds == {-1, 0, 1, DminInit, 2 * DminInit}

\* meta_data record: identity intrinsics and poses, pose_live2world translated by tx in X
MetaRecord(tx) ==
    [i \in 0 .. (NumMetaData - 1) |->
        CASE i \in {0, 4, 8} -> 1
          [] i \in {9, 13, 17} -> 1
          [] i \in {18, 23, 28} -> 1
          [] i \in {30, 35, 40} -> 1
          [] i = 29 -> 0 - tx
          [] i = 33 -> tx
          [] i \in {42, 43, 44} -> 1
          [] OTHER -> 0]

DepthAt(kind, h, w) ==
    CASE kind = "full" -> 1
      [] kind = "holes" /\ h = 0 /\ w = 0 -> 0
      [] kind = "holes" /\ h = Height - 1 /\ w = Width - 1 -> -1
      [] OTHER -> 2

\* previous-frame point fields: "self" is the depth-1 grid itself, "ties" puts
\* every point at the origin of the grid with the first pixel's Z undefined,
\* "far" puts every row's points at one place beyond DminInit and leaves the
\* first pixel undefined
PrevPointAt(kind, y, x) ==
    CASE kind = "self" -> <<x, y, 1>>
      [] kind = "ties" -> <<0, 0, IF x = 0 /\ y = 0 THEN NaN ELSE 1>>
      [] OTHER -> IF x = 0 /\ y = 0 THEN <<NaN, NaN, NaN>>
                                     ELSE <<DminInit + 500, y, 1>>

Scenes ==
    { [depth |-> "full",  points |-> "self", tx |-> 0, base |-> 1],
      [depth |-> "holes", points |-> "self", tx |-> 1, base |-> 1],
      [depth |-> "full",  points |-> "ties", tx |-> 0, base |-> 5],
      [depth |-> "full",  points |-> "far",  tx |-> 0, base |-> 5] }

DataOf(sc) ==
    [i \in 0 .. (NumPixels * NumChannels - 1) |->
        sc[BatchOf(i \div NumChannels)].base + (i % (Height * Width * NumChannels))]

PointsOf(sc) ==
    [i \in 0 .. (NumPixels * 3 - 1) |->
        LET p == i \div 3
        IN  PrevPointAt(sc[BatchOf(p)].points, RowOf(p), ColOf(p))[(i % 3) + 1]]

DepthOf(sc) ==
    [p \in Pixels |-> DepthAt(sc[BatchOf(p)].depth, RowOf(p), ColOf(p))]

MetaOf(sc) ==
    [i \in 0 .. (BatchSize * NumMetaData - 1) |->
        MetaRecord(sc[i \div NumMetaData].tx)[i % NumMetaData]]

\* upstream gradient of the backward pass (input "grad")
TopDiff(i) == i + 1

Init ==
    /\ attr_kernel_size \in KernelSizes
    /\ attr_threshold \in Thresholds
    /\ \E sc \in [0 .. (BatchSize - 1) -> Scenes] :
          /\ bottom_data = DataOf(sc)
          /\ im_points = PointsOf(sc)
          /\ im_depth = DepthOf(sc)
          /\ meta_data = MetaOf(sc)
    /\ status = [k \in {"fwd", "grad"} |-> "unconstructed"]
    /\ device = "none"
    /\ kernel_size_ = [k \in {"fwd", "grad"} |-> Uninit]
    /\ threshold_ = [k \in {"fwd", "grad"} |-> Uninit]
    /\ pc = "construct"
    /\ idx = 0
    /\ invocation = 0
    /\ top_data = [i \in 0 .. (NumPixels * NumChannels - 1) |-> Uninit]
    /\ top_points = [i \in 0 .. (NumPixels * 3 - 1) |-> Uninit]
    /\ stray = {}
    /\ sel = [p \in Pixels |-> <<-1, -1>>]
    /\ copied = [p \in Pixels |-> {}]
    /\ first_top_data = {}
    /\ first_top_points = {}
    /\ bottom_diff = [i \in 0 .. (NumPixels * NumChannels - 1) |-> Uninit]
    /\ scatter = [p \in Pixels |-> {}]

(***************************************************************************)
(* Kernel construction: ComputeFlowOp (CPU and GPU) and ComputeFlowGradOp. *)
(***************************************************************************)
\* the requirement written as "positive", as its comment reads
KernelSizePositive(ks) == ks > 0

KernelSizeOK(ks) == ks >= 0

ThresholdOK(th) == th >= 0

\* OP_REQUIRES returns from the constructor at the first failed requirement,
\* so a rejected kernel_size leaves threshold_ unread.
OpConstruct(ks, th) ==
    IF ~KernelSizeOK(ks)
    THEN [status |-> "InvalidArgument", kernel_size_ |-> ks, threshold_ |-> Uninit]
    ELSE IF ~ThresholdOK(th)
    THEN [status |-> "InvalidArgument", kernel_size_ |-> ks, threshold_ |-> th]
    ELSE [status |-> "OK", kernel_size_ |-> ks, threshold_ |-> th]

Constructed(k, dev) ==
    LET r == OpConstruct(attr_kernel_size, attr_threshold)
    IN  /\ status' = [status EXCEPT ![k] = r.status]
        /\ kernel_size_' = [kernel_size_ EXCEPT ![k] = r.kernel_size_]
        /\ threshold_' = [threshold_ EXCEPT ![k] = r.threshold_]
        /\ device' = dev

outputs == <<pc, idx, invocation, top_data, top_points, stray, sel, copied,
             first_top_data, first_top_points, bottom_diff, scatter>>

ConstructForwardCPU ==
    /\ pc = "construct"
    /\ status["fwd"] = "unconstructed"
    /\ Constructed("fwd", "CPU")
    /\ UNCHANGED <<inputs, outputs>>

ConstructForwardGPU ==
    /\ pc = "construct"
    /\ status["fwd"] = "unconstructed"
    /\ Constructed("fwd", "GPU")
    /\ UNCHANGED <<inputs, outputs>>

ConstructGrad ==
    /\ pc = "construct"
    /\ status["fwd"] # "unconstructed"
    /\ status["grad"] = "unconstructed"
    /\ Constructed("grad", device)
    /\ UNCHANGED <<inputs, outputs>>

(***************************************************************************)
(* ComputeFlowOp<CPUDevice>::Compute.                                      *)
(***************************************************************************)
\* the depth test admitting a depth of zero
DepthNonNegative(depth) == depth >= 0

DepthValid(depth) == depth > 0

\* backprojection of pixel (w, h) with the meta data record starting at im
Reproject(w, h, depth, im) ==
    LET RX == meta_data[im + 9] * w + meta_data[im + 10] * h + meta_data[im + 11]
        RY == meta_data[im + 12] * w + meta_data[im + 13] * h + meta_data[im + 14]
        RZ == meta_data[im + 15] * w + meta_data[im + 16] * h + meta_data[im + 17]
        X == depth * RX
        Y == depth * RY
        Z == depth * RZ
    IN  << meta_data[im + 30] * X + meta_data[im + 31] * Y + meta_data[im + 32] * Z
             + meta_data[im + 33],
           meta_data[im + 34] * X + meta_data[im + 35] * Y + meta_data[im + 36] * Z
             + meta_data[im + 37],
           meta_data[im + 38] * X + meta_data[im + 39] * Y + meta_data[im + 40] * Z
             + meta_data[im + 41] >>

PrevPoint(index) == <<im_points[index * 3], im_points[index * 3 + 1], im_points[index * 3 + 2]>>

\* the two nested loops over x (outer) and y (inner), flattened: step k visits
\* x = w - ks + k \div side, y = h - ks + k % side
RECURSIVE Scan(_, _, _, _, _, _, _)
Scan(k, acc, P, n, h, w, ks) ==
    LET side == 2 * ks + 1
        x == w - ks + (k \div side)
        y == h - ks + (k % side)
        index == n * Height * Width + y * Width + x
        Q == PrevPoint(index)
        dis == Dis(P, Q)
        next ==
            IF x >= 0 /\ x < Width /\ y >= 0 /\ y < Height
            THEN IF IsNan(Q[1]) \/ IsNan(Q[2]) \/ IsNan(Q[3])
                 THEN acc
                 ELSE IF dis < acc.dmin
                      THEN [dmin |-> dis, fx |-> x, fy |-> y]
                      ELSE acc
            ELSE acc
    IN  IF k >= side * side THEN acc ELSE Scan(k + 1, next, P, n, h, w, ks)

Search(P, n, h, w, ks) == Scan(0, [dmin |-> DminInit, fx |-> -1, fy |-> -1], P, n, h, w, ks)

\* one iteration of the loop body for index_pixel p: what it computes before
\* it reads bottom_data
PixelWork(p) ==
    LET n == BatchOf(p)
        h == RowOf(p)
        w == ColOf(p)
        depth == im_depth[p]
        P == Reproject(w, h, depth, n * NumMetaData)
        s == Search(P, n, h, w, kernel_size_["fwd"])
    IN  IF DepthValid(depth)
        THEN [point |-> P, fx |-> s.fx, fy |-> s.fy,
              copy |-> s.dmin < threshold_["fwd"],
              index |-> n * Height * Width + s.fy * Width + s.fx]
        ELSE [point |-> <<NaN, NaN, NaN>>, fx |-> -1, fy |-> -1,
              copy |-> FALSE, index |-> -1]

InData(i) == i >= 0 /\ i < NumPixels * NumChannels

\* top_data after the loop body for pixel p; g is what the cells outside
\* bottom_data hold
WriteData(p, r, g) ==
    [i \in 0 .. (NumPixels * NumChannels - 1) |->
        IF i \div NumChannels # p THEN top_data[i]
        ELSE IF ~r.copy THEN 0
        ELSE LET j == r.index * NumChannels + (i % NumChannels)
             IN  IF InData(j) THEN bottom_data[j] ELSE g[i % NumChannels]]

WritePoints(p, r) ==
    [i \in 0 .. (NumPixels * 3 - 1) |->
        IF i \div 3 # p THEN top_points[i] ELSE r.point[(i % 3) + 1]]

Advance ==
    /\ idx' = idx + 1
    /\ pc' = IF idx + 1 = NumPixels THEN "computed" ELSE "forward"

StartCompute ==
    /\ pc = "construct"
    /\ device = "CPU"
    /\ status["fwd"] = "OK"
    /\ status["grad"] # "unconstructed"
    /\ pc' = "forward"
    /\ idx' = 0
    /\ invocation' = 1
    /\ top_data' = [i \in 0 .. (NumPixels * NumChannels - 1) |-> Uninit]
    /\ top_points' = [i \in 0 .. (NumPixels * 3 - 1) |-> Uninit]
    /\ UNCHANGED <<inputs, kernels, stray, sel, copied, first_top_data, first_top_points,
                   bottom_diff, scatter>>

\* loop body, every read of bottom_data inside the tensor
ForwardPixel ==
    /\ pc = "forward"
    /\ \E r \in {PixelWork(idx)} :
           /\ r.copy => InData(r.index * NumChannels)
           /\ top_points' = WritePoints(idx, r)
           /\ top_data' = WriteData(idx, r, <<>>)
           /\ sel' = [sel EXCEPT ![idx] = <<r.fx, r.fy>>]
           /\ copied' = [copied EXCEPT ![idx] = IF r.copy THEN {r.index} ELSE {}]
    /\ Advance
    /\ UNCHANGED <<inputs, kernels, invocation, stray, first_top_data, first_top_points,
                   bottom_diff, scatter>>

\* loop body, bottom_data read in front of the tensor: the read yields what
\* those cells hold
ForwardPixelStray ==
    /\ pc = "forward"
    /\ \E r \in {PixelWork(idx)} :
           /\ r.copy /\ ~InData(r.index * NumChannels)
           /\ \E g \in (IF stray = {} THEN [Channels -> Garbage] ELSE stray) :
                 /\ stray' = {g}
                 /\ top_data' = WriteData(idx, r, g)
           /\ top_points' = WritePoints(idx, r)
           /\ sel' = [sel EXCEPT ![idx] = <<r.fx, r.fy>>]
           /\ copied' = [copied EXCEPT ![idx] = {r.index}]
    /\ Advance
    /\ UNCHANGED <<inputs, kernels, invocation, first_top_data, first_top_points,
                   bottom_diff, scatter>>

\* loop body, bottom_data read in front of the tensor: the read faults
ForwardPixelFault ==
    /\ pc = "forward"
    /\ \E r \in {PixelWork(idx)} :
           /\ r.copy /\ ~InData(r.index * NumChannels)
           /\ top_points' = WritePoints(idx, r)
           /\ top_data' = WriteData(idx, [r EXCEPT !.copy = FALSE], <<>>)
           /\ sel' = [sel EXCEPT ![idx] = <<r.fx, r.fy>>]
           /\ copied' = [copied EXCEPT ![idx] = {r.index}]
    /\ pc' = "aborted"
    /\ UNCHANGED <<inputs, kernels, idx, invocation, stray, first_top_data,
                   first_top_points, bottom_diff, scatter>>

\* the session runs the kernel again on the same inputs
Recompute ==
    /\ pc = "computed"
    /\ invocation + 1 \in Invocations
    /\ first_top_data' = IF invocation = 1 THEN {top_data} ELSE first_top_data
    /\ first_top_points' = IF invocation = 1 THEN {top_points} ELSE first_top_points
    /\ pc' = "forward"
    /\ idx' = 0
    /\ invocation' = invocation + 1
    /\ top_data' = [i \in 0 .. (NumPixels * NumChannels - 1) |-> Uninit]
    /\ top_points' = [i \in 0 .. (NumPixels * 3 - 1) |-> Uninit]
    /\ stray' = {}
    /\ sel' = [p \in Pixels |-> <<-1, -1>>]
    /\ copied' = [p \in Pixels |-> {}]
    /\ UNCHANGED <<inputs, kernels, bottom_diff, scatter>>

(***************************************************************************)
(* ComputeflowGrad: the scatter behind ComputeFlowBackwardLaucher. The     *)
(* kernel is called from this file but defined outside it; it is modelled  *)
(* from the design document: per target pixel, the neighbourhood search of *)
(* the forward pass run from the recorded current point, the running       *)
(* minimum unset until a defined neighbour is met, and the upstream        *)
(* gradient added at the matched pixel when its distance is below          *)
(* threshold.                                                              *)
(***************************************************************************)
RECURSIVE GradScan(_, _, _, _, _, _, _)
GradScan(k, acc, P, n, h, w, ks) ==
    LET side == 2 * ks + 1
        x == w - ks + (k \div side)
        y == h - ks + (k % side)
        index == n * Height * Width + y * Width + x
        Q == PrevPoint(index)
        dis == Dis(P, Q)
        next ==
            IF x >= 0 /\ x < Width /\ y >= 0 /\ y < Height
            THEN IF IsNan(Q[1]) \/ IsNan(Q[2]) \/ IsNan(Q[3])
                 THEN acc
                 ELSE IF ~acc.found \/ dis < acc.dmin
                      THEN [found |-> TRUE, dmin |-> dis, fx |-> x, fy |-> y]
                      ELSE acc
            ELSE acc
    IN  IF k >= side * side THEN acc ELSE GradScan(k + 1, next, P, n, h, w, ks)

GradSearch(P, n, h, w, ks) ==
    GradScan(0, [found |-> FALSE, dmin |-> 0, fx |-> -1, fy |-> -1], P, n, h, w, ks)

TopPoint(p) == <<top_points[p * 3], top_points[p * 3 + 1], top_points[p * 3 + 2]>>

\* {} or {the pixel index target pixel p scatters its gradient to}
GradTarget(p) ==
    LET n == BatchOf(p)
        P == TopPoint(p)
        s == GradSearch(P, n, RowOf(p), ColOf(p), kernel_size_["grad"])
    IN  IF IsNan(P[1]) \/ IsNan(P[2]) \/ IsNan(P[3]) THEN {}
        ELSE IF s.found /\ s.dmin < threshold_["grad"]
             THEN {n * Height * Width + s.fy * Width + s.fx}
             ELSE {}

StartGrad ==
    /\ pc = "computed"
    /\ status["grad"] = "OK"
    /\ pc' = "backward"
    /\ idx' = 0
    /\ bottom_diff' = [i \in 0 .. (NumPixels * NumChannels - 1) |-> 0]
    /\ scatter' = [p \in Pixels |-> {}]
    /\ UNCHANGED <<inputs, kernels, invocation, top_data, top_points, stray, sel, copied,
                   first_top_data, first_top_points>>

BackwardPixel ==
    /\ pc = "backward"
    /\ \E to \in {GradTarget(idx)} :
           /\ scatter' = [scatter EXCEPT ![idx] = to]
           /\ bottom_diff' =
                 [i \in 0 .. (NumPixels * NumChannels - 1) |->
                     IF (i \div NumChannels) \in to
                     THEN bottom_diff[i] + TopDiff(idx * NumChannels + (i % NumChannels))
                     ELSE bottom_diff[i]]
    /\ idx' = idx + 1
    /\ pc' = IF idx + 1 = NumPixels THEN "done" ELSE "backward"
    /\ UNCHANGED <<inputs, kernels, invocation, top_data, top_points, stray, sel, copied,
                   first_top_data, first_top_points>>

Next ==
    \/ ConstructForwardCPU
    \/ ConstructForwardGPU
    \/ ConstructGrad
    \/ StartCompute
    \/ ForwardPixel
    \/ ForwardPixelStray
    \/ ForwardPixelFault
    \/ Recompute
    \/ StartGrad
    \/ BackwardPixel

Spec == Init /\ [][Next]_vars

(***************************************************************************)
(* Vocabulary of the properties.                                           *)
(***************************************************************************)
\* the loop body of the current forward call has run to its end for pixel p
Processed(p) ==
    CASE pc \in {"forward", "aborted"} -> p < idx
      [] pc \in {"computed", "backward", "done"} -> TRUE
      [] OTHER -> FALSE

DefinedPrev(q) == ~IsNan(PrevPoint(q)[1]) /\ ~IsNan(PrevPoint(q)[2]) /\ ~IsNan(PrevPoint(q)[3])

InWindow(p, q) ==
    /\ BatchOf(q) = BatchOf(p)
    /\ ColOf(p) - kernel_size_["fwd"] <= ColOf(q) /\ ColOf(q) <= ColOf(p) + kernel_size_["fwd"]
    /\ RowOf(p) - kernel_size_["fwd"] <= RowOf(q) /\ RowOf(q) <= RowOf(p) + kernel_size_["fwd"]

\* the defined previous-frame points of the clipped window of p
Neighbours(p) == {q \in Pixels : InWindow(p, q) /\ DefinedPrev(q)}

DisTo(p, q) == Dis(TopPoint(p), PrevPoint(q))

Nearest(p) == {q \in Neighbours(p) : \A q2 \in Neighbours(p) : DisTo(p, q) <= DisTo(p, q2)}

\* position of q in the scan: x ascending outside, y ascending inside
ScanRank(q) == ColOf(q) * Height + RowOf(q)

AllZero(p) == \A c \in Channels : top_data[p * NumChannels + c] = 0

SameFeature(p, q) ==
    \A c \in Channels : top_data[p * NumChannels + c] = bottom_data[q * NumChannels + c]

ElementInputs(n) ==
    << [i \in 0 .. (Height * Width * NumChannels - 1) |->
           bottom_data[n * Height * Width * NumChannels + i]],
       [i \in 0 .. (Height * Width * 3 - 1) |-> im_points[n * Height * Width * 3 + i]],
       [i \in 0 .. (Height * Width - 1) |-> im_depth[n * Height * Width + i]],
       [i \in 0 .. (NumMetaData - 1) |-> meta_data[n * NumMetaData + i]] >>

ElementOutputs(n) ==
    << [i \in 0 .. (Height * Width * NumChannels - 1) |->
           top_data[n * Height * Width * NumChannels + i]],
       [i \in 0 .. (Height * Width * 3 - 1) |-> top_points[n * Height * Width * 3 + i]] >>

(***************************************************************************)
(* The properties.                                                         *)
(***************************************************************************)

\* C1 (threshold gate): at every processed pixel with depth > 0, a source
\* pixel that was copied holds a defined previous-frame point at distance
\* below threshold, and when no defined point of the clipped window is at
\* distance below threshold the output feature vector is all-zero.
C1_ThresholdGate ==
    \A p \in Pixels :
        (Processed(p) /\ im_depth[p] > 0) =>
            /\ \A q \in copied[p] :
                  q \in Pixels /\ DefinedPrev(q) /\ DisTo(p, q) < threshold_["fwd"]
            /\ (\A q \in Neighbours(p) : DisTo(p, q) >= threshold_["fwd"]) => AllZero(p)

\* C2 (window bound): whenever the forward pass copies source data at pixel
\* (h, w), the source (fx, fy) lies within kernel_size of (w, h) and inside
\* the image.
C2_WindowBound ==
    \A p \in Pixels :
        copied[p] # {} =>
            /\ ColOf(p) - kernel_size_["fwd"] <= sel[p][1]
            /\ sel[p][1] <= ColOf(p) + kernel_size_["fwd"]
            /\ RowOf(p) - kernel_size_["fwd"] <= sel[p][2]
            /\ sel[p][2] <= RowOf(p) + kernel_size_["fwd"]
            /\ 0 <= sel[p][1] /\ sel[p][1] < Width
            /\ 0 <= sel[p][2] /\ sel[p][2] < Height
            /\ (kernel_size_["fwd"] = 0 => copied[p] = {p})

\* C3 (depth gating): at every processed pixel, depth <= 0 gives the
\* undefined point in all three channels and an all-zero feature vector, and
\* depth > 0 gives a defined point.
C3_DepthGating ==
    \A p \in Pixels :
        Processed(p) =>
            /\ im_depth[p] <= 0 =>
                  /\ \A c \in 0 .. 2 : IsNan(top_points[p * 3 + c])
                  /\ AllZero(p)
            /\ im_depth[p] > 0 => \A c \in 0 .. 2 : ~IsNan(top_points[p * 3 + c])

\* C3 witness: a finished forward pass with a pixel of depth <= 0 beside a
\* pixel of depth > 0 that received a transfer.
C3_Witness ==
    /\ pc = "computed"
    /\ \E p, q \in Pixels :
          /\ BatchOf(p) = BatchOf(q)
          /\ im_depth[p] <= 0
          /\ im_depth[q] > 0
          /\ copied[q] # {}
          /\ ~AllZero(q)

\* C4 (batch independence): after the forward pass, two batch elements with
\* the same data, previous points, depth and meta data have the same outputs.
C4_BatchIndependence ==
    pc = "computed" =>
        \A n, m \in 0 .. (BatchSize - 1) :
            ElementInputs(n) = ElementInputs(m) => ElementOutputs(n) = ElementOutputs(m)

C6_TieBreak ==
    \A p \in Pixels :
        (Processed(p) /\ im_depth[p] > 0 /\ copied[p] # {}
            /\ Cardinality(Nearest(p)) >= 2) =>
            \E q \in Nearest(p) :
                /\ \A q2 \in Nearest(p) : ScanRank(q) <= ScanRank(q2)
                /\ sel[p] = <<ColOf(q), RowOf(q)>>
                /\ copied[p] = {q}

\* C7 (forward/backward consistency): after the backward pass over the
\* forward pass's points, every target pixel's gradient went to exactly the
\* pixel its forward output was copied from, and to no pixel when nothing
\* was copied.
C7_ForwardBackward ==
    pc = "done" => \A p \in Pixels : scatter[p] = copied[p]

\* C8 (transfer completeness): at every processed pixel with depth > 0, if
\* the clipped window holds a defined point at distance below threshold, the
\* output feature vector is the previous-frame feature vector of a window
\* pixel at the minimum distance.
C8_TransferCompleteness ==
    \A p \in Pixels :
        (Processed(p) /\ im_depth[p] > 0
            /\ \E q \in Neighbours(p) : DisTo(p, q) < threshold_["fwd"]) =>
            \E q \in Nearest(p) : SameFeature(p, q)

\* C9 (order independence, determinism): the pixel work reads input tensors
\* only, so a repeated Compute on the same inputs ends with the outputs of the
\* first.
C9_RepeatedCompute ==
    (pc = "computed" /\ invocation = 2) =>
        first_top_data = {top_data} /\ first_top_points = {top_points}

\* C10 (in-bounds source index): whenever the transfer guard is taken, fx and
\* fy have been assigned by the search and the source pixel index lies in
\* the batch element of the target pixel.
C10_SourceIndex ==
    \A p \in Pixels :
        \A i \in copied[p] :
            /\ sel[p][1] # -1
            /\ sel[p][2] # -1
            /\ BatchOf(p) * Height * Width <= i
            /\ i < (BatchOf(p) + 1) * Height * Width

====
